---- MODULE Spec2Model ----
(***************************************************************************)
(* A model of poker_logic.py: the Card model, PokerCalculator.evaluate_hand *)
(* and the Monte Carlo engines calculate_odds and calculate_outs.          *)
(*                                                                         *)
(* A card is the integer suit*13 + rank, its position in _create_deck()    *)
(* (for suit in Suit for rank in Rank).  Card.value is the index of the    *)
(* rank in the Rank enum: 0 for TWO up to 12 for ACE.                      *)
(* Python lists are sequences, Python floats are exact fractions           *)
(* [n |-> numerator, d |-> denominator].                                   *)
(***************************************************************************)
EXTENDS Integers, Sequences, FiniteSets, TLC

VARIABLES
    cards, ev,              \* evaluate_hand: its argument and its return value
    pc, err,                \* position in the running call; the exception that ended it
    hands_str, board_str,   \* calculate_odds: the arguments
    num_players, sims,
    player_hands,           \* parsed hands, [] for an unknown hand
    board_cards,            \* parsed board
    results,                \* results[i] = [wins, ties], i in 0..num_players-1
    trial,                  \* number of completed iterations of the trial loop
    deck, all_hands,        \* the locals of the latest trial
    final_board,
    best_scores, winners,
    output,                 \* the returned dict, percentages in hundredths
    eq_wins, eq_ties,       \* the tally of _simulate_equity run on the same trials
    player_hand_str,        \* calculate_outs: the arguments (with board_str and sims)
    opponent_hands_str,
    player_hand,            \* parsed hand of the player
    opponent_hands,         \* parsed known hands of the opponents
    current_equity,         \* the baseline equity
    river_equity,           \* new_equity of every river card of the deck, in deck order
    outs_cards,
    outs_details,
    report,                 \* the returned dict
    temp_deck               \* the deck of the latest trial of a simulation of calculate_outs

evalVars == <<cards, ev>>
callVars == <<hands_str, board_str, num_players, sims>>
oddsVars == <<player_hands, board_cards, results, trial, deck, all_hands,
              final_board, best_scores, winners, output, eq_wins, eq_ties>>
outsVars == <<player_hand_str, opponent_hands_str, player_hand, opponent_hands,
              current_equity, river_equity, outs_cards, outs_details, report,
              temp_deck>>
vars == <<cards, ev, pc, err, hands_str, board_str, num_players, sims,
          player_hands, board_cards, results, trial, deck, all_hands,
          final_board, best_scores, winners, output, eq_wins, eq_ties,
          player_hand_str, opponent_hands_str, player_hand, opponent_hands,
          current_equity, river_equity, outs_cards, outs_details, report,
          temp_deck>>

-----------------------------------------------------------------------------
(* Card model *)

NumRanks == 13
NumSuits == 4

TWO == 0
THREE == 1
FOUR == 2
FIVE == 3
TEN == 8
JACK == 9
QUEEN == 10
KING == 11
ACE == 12

HEARTS == 0
DIAMONDS == 1
CLUBS == 2
SPADES == 3

\* Card(rank, suit): the card object, identified with its position in the deck
Card(rank, suit) == suit * NumRanks + rank

\* Card.value = list(Rank).index(rank)
CardValue(c) == c % NumRanks

CardSuit(c) == c \div NumRanks

\* _create_deck: [Card(rank, suit) for suit in Suit for rank in Rank]
CreateDeck == [k \in 1..(NumRanks * NumSuits) |-> k - 1]

-----------------------------------------------------------------------------
(* Python helpers *)

SeqToSet(s) == {s[k] : k \in 1..Len(s)}

\* sorted(xs, reverse=True)
SortedDesc(s) == SortSeq(s, LAMBDA a, b : a > b)

\* sorted(xs)
SortedAsc(s) == SortSeq(s, LAMBDA a, b : a < b)

SetMax(S) == CHOOSE x \in S : \A y \in S : y <= x

SetMin(S) == CHOOSE x \in S : \A y \in S : x <= y

\* the sequence of the elements of a set of integers, descending
SetDesc(S) ==
    LET n == Cardinality(S)
        f[k \in 0..n] == IF k = 0 THEN <<>>
                         ELSE LET rest == S \ SeqToSet(f[k-1])
                              IN Append(f[k-1], SetMax(rest))
    IN f[n]

\* a > b for two Python lists of integers (lexicographic; a proper prefix is smaller)
RECURSIVE ListGreater(_, _)
ListGreater(a, b) ==
    IF a = <<>> THEN FALSE
    ELSE IF b = <<>> THEN TRUE
    ELSE IF a[1] # b[1] THEN a[1] > b[1]
    ELSE ListGreater(Tail(a), Tail(b))

-----------------------------------------------------------------------------
(* evaluate_hand *)

\* the value set the code takes for the wheel A-2-3-4-5
WheelValues == {14, 2, 3, 4, 5}

\* the rank_values the code assigns to a wheel
WheelRankValues == <<5, 4, 3, 2, 14>>

EvaluateHand(cs) ==
    IF Len(cs) # 5 THEN [name |-> "Invalid", score |-> <<0>>]
    ELSE
    LET vals == [k \in 1..5 |-> CardValue(cs[k])]
        ranks == SeqToSet(vals)
        count(r) == Cardinality({k \in 1..5 : vals[k] = r})
        counts == {count(r) : r \in ranks}
        is_flush == Cardinality({CardSuit(cs[k]) : k \in 1..5}) = 1
        sorted_vals == SortedAsc(vals)
        consecutive == \A k \in 1..4 : sorted_vals[k] + 1 = sorted_vals[k+1]
        wheel == ranks = WheelValues
        is_straight == consecutive \/ wheel
        rank_values == IF wheel THEN WheelRankValues ELSE SortedDesc(vals)
        hi == SetMax(SeqToSet(rank_values))
        lo == SetMin(SeqToSet(rank_values))
        withCount(n) == {r \in ranks : count(r) = n}
        pairs == withCount(2)
    IN  IF is_flush /\ is_straight THEN
            IF hi = 14 /\ lo = 10
            THEN [name |-> "Royal Flush", score |-> <<10, hi>>]
            ELSE [name |-> "Straight Flush", score |-> <<9, hi>>]
        ELSE IF 4 \in counts THEN
            LET quad_rank == CHOOSE r \in withCount(4) : TRUE
                kicker == CHOOSE r \in ranks : r # quad_rank
            IN [name |-> "Four of a Kind", score |-> <<8, quad_rank, kicker>>]
        ELSE IF 3 \in counts /\ 2 \in counts THEN
            LET trips == CHOOSE r \in withCount(3) : TRUE
                pair == CHOOSE r \in withCount(2) : TRUE
            IN [name |-> "Full House", score |-> <<7, trips, pair>>]
        ELSE IF is_flush THEN [name |-> "Flush", score |-> <<6>> \o rank_values]
        ELSE IF is_straight THEN [name |-> "Straight", score |-> <<5, hi>>]
        ELSE IF 3 \in counts THEN
            LET trips == CHOOSE r \in withCount(3) : TRUE
            IN [name |-> "Three of a Kind",
                score |-> <<4, trips>> \o SetDesc(ranks \ {trips})]
        ELSE IF Cardinality(pairs) = 2 THEN
            LET kicker == CHOOSE r \in withCount(1) : TRUE
            IN [name |-> "Two Pair", score |-> <<3>> \o SetDesc(pairs) \o <<kicker>>]
        ELSE IF Cardinality(pairs) = 1 THEN
            LET pair_val == CHOOSE r \in pairs : TRUE
            IN [name |-> "One Pair", score |-> <<2, pair_val>> \o SetDesc(withCount(1))]
        ELSE [name |-> "High Card", score |-> <<1>> \o rank_values]

-----------------------------------------------------------------------------
(* Specification SpecEval: evaluate_hand applied to hands drawn from a      *)
(* bounded part of the deck.  evaluate_hand does not depend on the order of *)
(* its cards, so hands are built in increasing deck order.                 *)

\* the ranks hands are drawn from: 2 3 4 5 and T J Q K A
EvalRanks == {TWO, THREE, FOUR, FIVE, TEN, JACK, QUEEN, KING, ACE}

EvalDeck == {c \in SeqToSet(CreateDeck) : CardValue(c) \in EvalRanks}

MaxHandLen == 5

NoCall == [name |-> "none", score |-> <<>>]

NoError == [type |-> "none", line |-> 0]

\* the variables of calculate_odds before any call
OddsIdle ==
    /\ hands_str = <<>> /\ board_str = <<>> /\ num_players = 0 /\ sims = 0
    /\ player_hands = <<>> /\ board_cards = <<>> /\ results = <<>> /\ trial = 0
    /\ deck = <<>> /\ all_hands = <<>> /\ final_board = <<>>
    /\ best_scores = <<>> /\ winners = <<>> /\ output = <<>>
    /\ eq_wins = 0 /\ eq_ties = 0

\* the variables of calculate_outs before any call
OutsIdle ==
    /\ player_hand_str = <<>> /\ opponent_hands_str = <<>>
    /\ player_hand = <<>> /\ opponent_hands = <<>>
    /\ current_equity = <<>> /\ river_equity = <<>>
    /\ outs_cards = <<>> /\ outs_details = <<>> /\ report = <<>>
    /\ temp_deck = <<>>

InitEval ==
    /\ cards = <<>>
    /\ ev = NoCall
    /\ pc = "hand"
    /\ err = NoError
    /\ OddsIdle
    /\ OutsIdle

\* the caller adds one more card to the argument list
AddCard(c) ==
    /\ pc = "hand"
    /\ Len(cards) < MaxHandLen
    /\ Len(cards) > 0 => c > cards[Len(cards)]
    /\ cards' = Append(cards, c)
    /\ UNCHANGED <<ev, pc, err, callVars, oddsVars, outsVars>>

\* evaluate_hand(cards)
Evaluate ==
    /\ pc = "hand"
    /\ ev' = EvaluateHand(cards)
    /\ pc' = "evaluated"
    /\ UNCHANGED <<cards, err, callVars, oddsVars, outsVars>>

NextEval ==
    \/ \E c \in EvalDeck : AddCard(c)
    \/ Evaluate

SpecEval == InitEval /\ [][NextEval]_vars

-----------------------------------------------------------------------------
(* _parse_card.  A card code is a sequence of two one-character strings.   *)

\* the members of Rank, in the order of the enum, by their character
RankChars == <<"2", "3", "4", "5", "6", "7", "8", "9", "T", "J", "Q", "K", "A">>

\* the keys of suit_map, in the order of the Suit enum
SuitChars == <<"h", "d", "c", "s">>

\* the letters of card codes: <<lower case, upper case>>
CasePairs == <<<<"t", "T">>, <<"j", "J">>, <<"q", "Q">>, <<"k", "K">>, <<"a", "A">>,
               <<"h", "H">>, <<"d", "D">>, <<"c", "C">>, <<"s", "S">>, <<"x", "X">>>>

\* str.upper() of one character
Upper(ch) ==
    IF \E k \in 1..Len(CasePairs) : CasePairs[k][1] = ch
    THEN CasePairs[CHOOSE k \in 1..Len(CasePairs) : CasePairs[k][1] = ch][2]
    ELSE ch

\* str.lower() of one character
Lower(ch) ==
    IF \E k \in 1..Len(CasePairs) : CasePairs[k][2] = ch
    THEN CasePairs[CHOOSE k \in 1..Len(CasePairs) : CasePairs[k][2] = ch][1]
    ELSE ch

\* what ParseCard gives where rank_map or suit_map raises KeyError
KeyErrorCard == -1

\* _parse_card(card_str)
ParseCard(card_str) ==
    LET rc == Upper(card_str[1])
        sc == Lower(card_str[2])
    IN  IF /\ \E k \in 1..Len(RankChars) : RankChars[k] = rc
           /\ \E k \in 1..Len(SuitChars) : SuitChars[k] = sc
        THEN Card((CHOOSE k \in 1..Len(RankChars) : RankChars[k] = rc) - 1,
                  (CHOOSE k \in 1..Len(SuitChars) : SuitChars[k] = sc) - 1)
        ELSE KeyErrorCard

\* "if hand_str and len(hand_str) == 4": [card1, card2], else []
ParseHand(hand_str) ==
    IF Len(hand_str) = 4
    THEN <<ParseCard(SubSeq(hand_str, 1, 2)), ParseCard(SubSeq(hand_str, 3, 4))>>
    ELSE <<>>

\* the board loop: one card for every i in range(0, len, 2) with i+2 <= len
ParseBoard(str) ==
    [k \in 1..(Len(str) \div 2) |-> ParseCard(SubSeq(str, 2*k - 1, 2*k))]

\* the concatenation of a list of lists
RECURSIVE Flatten(_)
Flatten(ss) == IF ss = <<>> THEN <<>> ELSE Head(ss) \o Flatten(Tail(ss))

-----------------------------------------------------------------------------
(* The deck of a trial *)

\* list.remove(c): the list without the first occurrence of c
Remove(d, c) ==
    LET p == CHOOSE k \in 1..Len(d) : d[k] = c /\ \A j \in 1..(k-1) : d[j] # c
    IN SubSeq(d, 1, p - 1) \o SubSeq(d, p + 1, Len(d))

\* the first known card alone removed
RemoveKnownFirst(d, cs) ==
    IF cs # <<>> /\ Head(cs) \in SeqToSet(d) THEN Remove(d, Head(cs)) ELSE d

\* "if card in deck: deck.remove(card)" for every known card
RECURSIVE RemoveKnown(_, _)
RemoveKnown(d, cs) ==
    IF cs = <<>> THEN d
    ELSE RemoveKnown(IF Head(cs) \in SeqToSet(d) THEN Remove(d, Head(cs)) ELSE d, Tail(cs))

\* a dealt hand left in the deck
RemoveDealtNot(d, hand) == d

\* "for card in hand: deck.remove(card)" after a hand is dealt
RECURSIVE RemoveDealt(_, _)
RemoveDealt(d, hand) ==
    IF hand = <<>> THEN d ELSE RemoveDealt(Remove(d, Head(hand)), Tail(hand))

\* the step between the positions random.sample draws, in the outcomes modelled
SampleStride == 7

\* random.sample(d, k) for k <= len(d): k distinct cards of d.  r is the
\* outcome of the random source; the outcomes modelled are r in 0..MaxRand-1.
RECURSIVE Sample(_, _, _)
Sample(d, k, r) ==
    IF k = 0 THEN <<>>
    ELSE LET c == d[(r % Len(d)) + 1]
         IN <<c>> \o Sample(Remove(d, c), k - 1, r + SampleStride)

\* lines 158-166: all_hands, a known hand copied, an unknown hand sampled
\* from the shrinking deck; ok is false where random.sample raises ValueError
RECURSIVE DealHands(_, _, _, _, _, _)
DealHands(i, n, known, hs, d, r) ==
    IF i = n THEN [hands |-> hs, deck |-> d, ok |-> TRUE]
    ELSE IF i < Len(known) /\ known[i + 1] # <<>>
         THEN DealHands(i + 1, n, known, Append(hs, known[i + 1]), d, r)
    ELSE IF Len(d) < 2 THEN [hands |-> hs, deck |-> d, ok |-> FALSE]
    ELSE LET hand == Sample(d, 2, r)
         IN DealHands(i + 1, n, known, Append(hs, hand), RemoveDealt(d, hand), r)

-----------------------------------------------------------------------------
(* Best five of a player's cards, winners, tally *)

\* itertools.combinations(range(lo, n+1), k), in its order
RECURSIVE Combinations(_, _, _)
Combinations(lo, n, k) ==
    IF k = 0 THEN << <<>> >>
    ELSE IF n - lo + 1 < k THEN <<>>
    ELSE LET with == Combinations(lo + 1, n, k - 1)
         IN [j \in 1..Len(with) |-> <<lo>> \o with[j]] \o Combinations(lo + 1, n, k)

Combinations7 == Combinations(1, 7, 5)

\* best_score = None
None == <<>>

\* the score of the first combination taken for the best
BestOverFirst(cs, combos, best) ==
    IF combos = <<>> THEN best
    ELSE EvaluateHand([k \in 1..5 |-> cs[Head(combos)[k]]]).score

\* the loop "for combo in itertools.combinations(hand + final_board, 5)"
RECURSIVE BestOver(_, _, _)
BestOver(cs, combos, best) ==
    IF combos = <<>> THEN best
    ELSE LET combo == [k \in 1..5 |-> cs[Head(combos)[k]]]
             score == EvaluateHand(combo).score
         IN BestOver(cs, Tail(combos),
                     IF best = None \/ ListGreater(score, best) THEN score ELSE best)

BestScore(cs) ==
    BestOver(cs, IF Len(cs) = 7 THEN Combinations7 ELSE Combinations(1, Len(cs), 5), None)

\* max(scores) of a non-empty list of lists: the first greatest element
RECURSIVE MaxOver(_, _)
MaxOver(scores, best) ==
    IF scores = <<>> THEN best
    ELSE MaxOver(Tail(scores), IF ListGreater(Head(scores), best) THEN Head(scores) ELSE best)

MaxScore(scores) == MaxOver(Tail(scores), Head(scores))

\* winners taken by the category tier alone
WinnersByTier(scores) ==
    LET max_score == MaxScore(scores)
    IN SelectSeq([k \in 1..Len(scores) |-> k - 1], LAMBDA i : scores[i + 1][1] = max_score[1])

\* winners = [i for i,s in enumerate(best_scores) if s == max_score]
Winners(scores) ==
    LET max_score == MaxScore(scores)
    IN SelectSeq([k \in 1..Len(scores) |-> k - 1], LAMBDA i : scores[i + 1] = max_score)

\* every winner of a tied trial given a win
TallyTieAsWin(res, w) ==
    [i \in DOMAIN res |->
        IF i \in SeqToSet(w) THEN [res[i] EXCEPT !.wins = @ + 1] ELSE res[i]]

\* lines 189-193
Tally(res, w) ==
    IF Len(w) = 1
    THEN [res EXCEPT ![w[1]].wins = @ + 1]
    ELSE [i \in DOMAIN res |->
            IF i \in SeqToSet(w) THEN [res[i] EXCEPT !.ties = @ + 1] ELSE res[i]]

\* _simulate_equity, lines 336-342: the outcome of a trial for player 0
EquityOutcome(scores) ==
    LET player_score == scores[1]
        opponent_best == IF Len(scores) > 1 THEN MaxScore(Tail(scores)) ELSE <<0>>
    IN  IF ListGreater(player_score, opponent_best) THEN "win"
        ELSE IF player_score = opponent_best THEN "tie"
        ELSE "loss"

-----------------------------------------------------------------------------
(* Percentages: exact fractions, rounded to hundredths for the report *)

Frac(n, d) == [n |-> n, d |-> d]

FracAdd(a, b) == Frac(a.n * b.d + b.n * a.d, a.d * b.d)

FracSub(a, b) == Frac(a.n * b.d - b.n * a.d, a.d * b.d)

FracEq(a, b) == a.n * b.d = b.n * a.d

\* a > b, denominators positive
FracGreater(a, b) == a.n * b.d > b.n * a.d

\* round(x, 2) of x >= 0, in hundredths; a value exactly halfway goes to the even side
Round2(x) ==
    LET n == x.n * 100
        q == n \div x.d
        rem == n % x.d
    IN  IF 2 * rem < x.d THEN q
        ELSE IF 2 * rem > x.d THEN q + 1
        ELSE IF q % 2 = 0 THEN q ELSE q + 1

\* win_pct = wins / sims * 100
WinPct(r, n) == Frac(r.wins * 100, n)

\* tie_pct = ties / sims * 100
TiePct(r, n) == Frac(r.ties * 100, n)

\* equity = win_pct + tie_pct / len(winners) if winners else win_pct
OddsEquity(r, n, w) ==
    IF w # <<>>
    THEN FracAdd(WinPct(r, n), Frac(TiePct(r, n).n, TiePct(r, n).d * Len(w)))
    ELSE WinPct(r, n)

\* _simulate_equity, line 344: (wins + ties / 2) / sims * 100
SimulateEquityValue(w, t, n) == Frac((2 * w + t) * 100, 2 * n)

-----------------------------------------------------------------------------
(* Specification SpecOdds: calls of calculate_odds *)

MaxSims == 2

MaxRand == 4

\* the calls modelled: hands_str, board_str, num_players
OddsRequests == {
    \* two known pairs, no board
    [hands |-> <<<<"A", "s", "A", "h">>, <<"K", "s", "K", "h">>>>,
     board |-> <<>>, n |-> 2],
    \* two unknown hands, no board
    [hands |-> <<<<>>, <<>>>>,
     board |-> <<>>, n |-> 2],
    \* one known hand of three players, the flop known
    [hands |-> <<<<"A", "s", "K", "s">>>>,
     board |-> <<"2", "h", "3", "h", "4", "h">>, n |-> 3],
    \* both players play the board
    [hands |-> <<<<"2", "s", "3", "s">>, <<"2", "d", "3", "d">>>>,
     board |-> <<"A", "h", "K", "h", "Q", "h", "J", "h", "T", "h">>, n |-> 2],
    \* three players play the board
    [hands |-> <<<<"2", "s", "3", "s">>, <<"2", "d", "3", "d">>, <<"2", "c", "3", "c">>>>,
     board |-> <<"A", "h", "K", "h", "Q", "h", "J", "h", "T", "h">>, n |-> 3],
    \* mixed case, a two-card board, a hand beyond num_players
    [hands |-> <<<<"a", "s", "K", "D">>, <<>>, <<"7", "c", "7", "d">>>>,
     board |-> <<"2", "C", "9", "s">>, n |-> 2],
    \* the river decides: a tie, or a pair for either player
    [hands |-> <<<<"A", "s", "5", "d">>, <<"A", "d", "4", "c">>>>,
     board |-> <<"K", "c", "Q", "c", "J", "s", "9", "s">>, n |-> 2],
    \* a single player
    [hands |-> <<<<"A", "s", "K", "s">>>>,
     board |-> <<>>, n |-> 1],
    \* the turn known
    [hands |-> <<<<"9", "h", "8", "h">>, <<>>>>,
     board |-> <<"7", "h", "6", "h", "2", "c", "K", "d">>, n |-> 2],
    \* the ace of spades in two hands
    [hands |-> <<<<"A", "s", "A", "h">>, <<"A", "s", "K", "d">>>>,
     board |-> <<>>, n |-> 2],
    \* the queen of spades in a hand and on the board
    [hands |-> <<<<"Q", "s", "Q", "h">>>>,
     board |-> <<"Q", "s", "J", "d", "2", "c">>, n |-> 2],
    \* no rank X
    [hands |-> <<<<"X", "s", "A", "h">>, <<>>>>,
     board |-> <<>>, n |-> 2],
    \* no suit x
    [hands |-> <<<<"A", "s", "K", "s">>>>,
     board |-> <<"2", "h", "3", "x", "4", "h">>, n |-> 2],
    \* more hands than the deck holds
    [hands |-> <<>>,
     board |-> <<>>, n |-> 27],
    \* no cards left for the board
    [hands |-> <<>>,
     board |-> <<>>, n |-> 24]
}

InitOdds ==
    /\ \E rq \in OddsRequests :
        /\ hands_str = rq.hands
        /\ board_str = rq.board
        /\ num_players = rq.n
    /\ sims \in 1..MaxSims
    /\ pc = "parse"
    /\ err = NoError
    /\ cards = <<>> /\ ev = NoCall
    /\ player_hands = <<>> /\ board_cards = <<>> /\ results = <<>> /\ trial = 0
    /\ deck = <<>> /\ all_hands = <<>> /\ final_board = <<>>
    /\ best_scores = <<>> /\ winners = <<>> /\ output = <<>>
    /\ eq_wins = 0 /\ eq_ties = 0
    /\ OutsIdle

\* calculate_odds, lines 118-137: parse the hands and the board, zero the counters
OddsParse ==
    /\ pc = "parse"
    /\ LET hs == [k \in 1..Len(hands_str) |-> ParseHand(hands_str[k])]
           bs == ParseBoard(board_str)
       IN  IF KeyErrorCard \in SeqToSet(Flatten(hs) \o bs)
           THEN /\ pc' = "raised"
                /\ err' = [type |-> "KeyError", line |-> 51]
                /\ UNCHANGED <<player_hands, board_cards, results>>
           ELSE /\ pc' = "trials"
                /\ player_hands' = hs
                /\ board_cards' = bs
                /\ results' = [i \in 0..(num_players - 1) |-> [wins |-> 0, ties |-> 0]]
                /\ err' = err
    /\ UNCHANGED <<evalVars, callVars, trial, deck, all_hands, final_board,
                   best_scores, winners, output, eq_wins, eq_ties, outsVars>>

\* calculate_odds, lines 139-193: one iteration of the trial loop, r the
\* outcome of the random source in it
OddsTrial(r) ==
    /\ pc = "trials"
    /\ trial < sims
    /\ LET deck0 == RemoveKnown(CreateDeck, Flatten(player_hands) \o board_cards)
           dealt == DealHands(0, num_players, player_hands, <<>>, deck0, r)
           cards_needed == 5 - Len(board_cards)
       IN  IF ~dealt.ok
           THEN /\ pc' = "raised"
                /\ err' = [type |-> "ValueError", line |-> 163]
                /\ deck' = dealt.deck
                /\ all_hands' = dealt.hands
                /\ UNCHANGED <<final_board, best_scores, winners, results, trial,
                               eq_wins, eq_ties>>
           ELSE IF cards_needed > Len(dealt.deck)
           THEN /\ pc' = "raised"
                /\ err' = [type |-> "ValueError", line |-> 172]
                /\ deck' = dealt.deck
                /\ all_hands' = dealt.hands
                /\ UNCHANGED <<final_board, best_scores, winners, results, trial,
                               eq_wins, eq_ties>>
           ELSE LET board == IF cards_needed > 0
                             THEN board_cards \o Sample(dealt.deck, cards_needed, r)
                             ELSE board_cards
                    scores == [k \in 1..Len(dealt.hands) |->
                                 BestScore(dealt.hands[k] \o board)]
                    w == Winners(scores)
                    outcome == EquityOutcome(scores)
                IN  /\ deck' = dealt.deck
                    /\ all_hands' = dealt.hands
                    /\ final_board' = board
                    /\ best_scores' = scores
                    /\ winners' = w
                    /\ results' = Tally(results, w)
                    /\ eq_wins' = IF outcome = "win" THEN eq_wins + 1 ELSE eq_wins
                    /\ eq_ties' = IF outcome = "tie" THEN eq_ties + 1 ELSE eq_ties
                    /\ trial' = trial + 1
                    /\ UNCHANGED <<pc, err>>
    /\ UNCHANGED <<evalVars, callVars, player_hands, board_cards, output, outsVars>>

\* calculate_odds, lines 195-208: the percentages of every player
OddsOutput ==
    /\ pc = "trials"
    /\ trial = sims
    /\ output' = [i \in 0..(num_players - 1) |->
                    [win |-> Round2(WinPct(results[i], sims)),
                     tie |-> Round2(TiePct(results[i], sims)),
                     equity |-> Round2(OddsEquity(results[i], sims, winners))]]
    /\ pc' = "done"
    /\ UNCHANGED <<evalVars, callVars, err, player_hands, board_cards, results, trial,
                   deck, all_hands, final_board, best_scores, winners, eq_wins, eq_ties,
                   outsVars>>

NextOdds ==
    \/ OddsParse
    \/ \E r \in 0..(MaxRand - 1) : OddsTrial(r)
    \/ OddsOutput

SpecOdds == InitOdds /\ [][NextOdds]_vars

-----------------------------------------------------------------------------
(* calculate_outs.  The trials of _simulate_equity and                      *)
(* _simulate_equity_with_river are modelled by their tally: wins and ties  *)
(* with wins + ties <= sims, the outcome of every trial being left open.   *)

\* Card.to_code
ToCode(c) == <<RankChars[CardValue(c) + 1], SuitChars[CardSuit(c) + 1]>>

\* the equity gain a river card must exceed to be an out (line 273)
OutThreshold == 20

\* the trial count of the simulation of one river card (line 269): sims // 10
RiverSims(n) == n \div 10

\* a river card that gains exactly 20 taken for an out
IsOutOrEqual(new_equity, cur) ==
    ~FracGreater(FracAdd(cur, Frac(OutThreshold, 1)), new_equity)

\* "if new_equity > current_equity + 20"
IsOut(new_equity, cur) == FracGreater(new_equity, FracAdd(cur, Frac(OutThreshold, 1)))

\* the entry of outs_details for river card c (card_display, the same card
\* written with the suit symbol, is left out)
OutEntry(c, new_equity, cur) ==
    [card |-> ToCode(c),
     current_equity |-> Round2(cur),
     new_equity |-> Round2(new_equity),
     equity_gain |-> Round2(FracSub(new_equity, cur))]

\* list.sort(key=equity_gain, reverse=True): stable, descending
RECURSIVE InsertByGain(_, _)
InsertByGain(sorted, e) ==
    IF sorted = <<>> THEN <<e>>
    ELSE IF Head(sorted).equity_gain >= e.equity_gain
         THEN <<Head(sorted)>> \o InsertByGain(Tail(sorted), e)
         ELSE <<e>> \o sorted

RECURSIVE SortByGain(_)
SortByGain(ds) ==
    IF ds = <<>> THEN <<>>
    ELSE InsertByGain(SortByGain(SubSeq(ds, 1, Len(ds) - 1)), ds[Len(ds)])

\* the error dicts of the two length checks (their messages in English)
InvalidHand == [error |-> "invalid hand"]

InvalidBoard == [error |-> "the turn needs 4 board cards"]

-----------------------------------------------------------------------------
(* Specification SpecOuts: calls of calculate_outs *)

\* the most trials a modelled simulation ties
MaxTies == 1

\* the positions in the deck of the river cards whose simulation has an open
\* outcome; the simulations of the other river cards lose every trial
VariedRivers == {1}

\* the tallies <<wins, ties>> of a simulation of n trials
Tallies(n) == {x \in (0..n) \X (0..MaxTies) : x[1] + x[2] <= n}

\* the tallies of a simulation with the river card fixed: with every opponent
\* hand known no card is drawn and every trial has the same outcome
RiverTallies(n, known) ==
    IF known THEN {<<n, 0>>, <<0, n>>, <<0, 0>>} ELSE Tallies(n)

\* the calls modelled: player_hand_str, board_str, opponent_hands_str, and the
\* values of sims
OutsRequests == {
    \* no opponent hand known
    [hand |-> <<"A", "s", "K", "s">>,
     board |-> <<"A", "h", "K", "d", "Q", "c", "J", "h">>,
     opponents |-> <<>>, sims |-> {1, 9, 10, 143}],
    \* a flush and straight draw against a known pair of aces
    [hand |-> <<"9", "h", "8", "h">>,
     board |-> <<"7", "h", "6", "h", "2", "c", "K", "d">>,
     opponents |-> <<<<"A", "s", "A", "d">>>>, sims |-> {10, 20}],
    \* an opponent hand of the wrong length is skipped
    [hand |-> <<"2", "c", "2", "d">>,
     board |-> <<"A", "h", "K", "d", "Q", "c", "J", "h">>,
     opponents |-> <<<<"A", "s", "A">>, <<"K", "s", "K", "h">>>>, sims |-> {5, 30}],
    \* the ace of spades and the king of diamonds given twice
    [hand |-> <<"A", "s", "K", "s">>,
     board |-> <<"A", "s", "K", "d", "Q", "c", "J", "h">>,
     opponents |-> <<<<"K", "d", "Q", "d">>>>, sims |-> {10}],
    \* a hand of three characters
    [hand |-> <<"A", "s", "K">>,
     board |-> <<"A", "h", "K", "d", "Q", "c", "J", "h">>,
     opponents |-> <<>>, sims |-> {10}],
    \* a board of three cards
    [hand |-> <<"A", "s", "K", "s">>,
     board |-> <<"A", "h", "K", "d", "Q", "c">>,
     opponents |-> <<>>, sims |-> {10}],
    \* no suit x
    [hand |-> <<"A", "s", "K", "s">>,
     board |-> <<"A", "h", "K", "d", "Q", "c", "J", "x">>,
     opponents |-> <<>>, sims |-> {10}]
}

InitOuts ==
    /\ \E rq \in OutsRequests :
        /\ player_hand_str = rq.hand
        /\ board_str = rq.board
        /\ opponent_hands_str = rq.opponents
        /\ sims \in rq.sims
    /\ pc = "outs_parse"
    /\ err = NoError
    /\ cards = <<>> /\ ev = NoCall
    /\ hands_str = <<>> /\ num_players = 0
    /\ player_hands = <<>> /\ board_cards = <<>> /\ results = <<>> /\ trial = 0
    /\ deck = <<>> /\ all_hands = <<>> /\ final_board = <<>>
    /\ best_scores = <<>> /\ winners = <<>> /\ output = <<>>
    /\ eq_wins = 0 /\ eq_ties = 0
    /\ player_hand = <<>> /\ opponent_hands = <<>>
    /\ current_equity = <<>> /\ river_equity = <<>>
    /\ outs_cards = <<>> /\ outs_details = <<>> /\ report = <<>>
    /\ temp_deck = <<>>

outsIdle == <<evalVars, hands_str, num_players, player_hands, results, trial, all_hands,
              final_board, best_scores, winners, output, eq_wins, eq_ties,
              player_hand_str, opponent_hands_str, board_str, sims, temp_deck>>

\* calculate_outs, lines 216-255: the length checks, the parsing, the deck
OutsParse ==
    /\ pc = "outs_parse"
    /\ IF Len(player_hand_str) # 4
       THEN /\ report' = InvalidHand
            /\ pc' = "done"
            /\ UNCHANGED <<err, player_hand, opponent_hands, board_cards, deck>>
       ELSE IF Len(board_str) # 8
       THEN /\ report' = InvalidBoard
            /\ pc' = "done"
            /\ UNCHANGED <<err, player_hand, opponent_hands, board_cards, deck>>
       ELSE LET ph == ParseHand(player_hand_str)
                bs == ParseBoard(board_str)
                given == SelectSeq(opponent_hands_str, LAMBDA h : Len(h) = 4)
                ohs == [k \in 1..Len(given) |-> ParseHand(given[k])]
                used_cards == SeqToSet(ph \o bs \o Flatten(ohs))
            IN  IF KeyErrorCard \in used_cards
                THEN /\ pc' = "raised"
                     /\ err' = [type |-> "KeyError", line |-> 51]
                     /\ UNCHANGED <<report, player_hand, opponent_hands, board_cards, deck>>
                ELSE /\ player_hand' = ph
                     /\ board_cards' = bs
                     /\ opponent_hands' = ohs
                     /\ deck' = SelectSeq(CreateDeck, LAMBDA c : c \notin used_cards)
                     /\ pc' = "baseline"
                     /\ UNCHANGED <<err, report>>
    /\ UNCHANGED <<outsIdle, current_equity, river_equity, outs_cards, outs_details>>

\* calculate_outs, lines 257-260: _simulate_equity(..., sims), tally <<w, t>>
OutsBaseline(w, t) ==
    /\ pc = "baseline"
    /\ current_equity' = SimulateEquityValue(w, t, sims)
    /\ pc' = "scan"
    /\ UNCHANGED <<outsIdle, err, player_hand, opponent_hands, board_cards, deck,
                   river_equity, outs_cards, outs_details, report>>

\* calculate_outs, lines 262-281: the loop over the river cards of the deck;
\* tally[k] is the tally of the simulation of the k-th card.  With
\* sims // 10 = 0 the first simulation divides by zero on line 398.
OutsScan(tally) ==
    /\ pc = "scan"
    /\ IF deck # <<>> /\ RiverSims(sims) = 0
       THEN /\ pc' = "raised"
            /\ err' = [type |-> "ZeroDivisionError", line |-> 398]
            /\ UNCHANGED <<river_equity, outs_cards, outs_details>>
       ELSE LET new_equity == [k \in 1..Len(deck) |->
                                 IF k \in DOMAIN tally
                                 THEN SimulateEquityValue(tally[k][1], tally[k][2],
                                                          RiverSims(sims))
                                 ELSE SimulateEquityValue(0, 0, RiverSims(sims))]
                outs == SelectSeq([k \in 1..Len(deck) |-> k],
                                  LAMBDA k : IsOut(new_equity[k], current_equity))
            IN  /\ river_equity' = new_equity
                /\ outs_cards' = [j \in 1..Len(outs) |-> ToCode(deck[outs[j]])]
                /\ outs_details' = [j \in 1..Len(outs) |->
                                      OutEntry(deck[outs[j]], new_equity[outs[j]],
                                               current_equity)]
                /\ pc' = "return"
                /\ err' = err
    /\ UNCHANGED <<outsIdle, player_hand, opponent_hands, board_cards, deck,
                   current_equity, report>>

\* calculate_outs, lines 283-293: sort the details and return the report
OutsReturn ==
    /\ pc = "return"
    /\ outs_details' = SortByGain(outs_details)
    /\ report' = [outs_count |-> Len(outs_cards),
                  outs_cards |-> outs_cards,
                  outs_details |-> SortByGain(outs_details),
                  current_equity |-> Round2(current_equity),
                  deck_remaining |-> Len(deck),
                  outs_percentage |->
                      IF deck # <<>>
                      THEN Round2(Frac(Len(outs_cards) * 100, Len(deck)))
                      ELSE 0]
    /\ pc' = "done"
    /\ UNCHANGED <<outsIdle, err, player_hand, opponent_hands, board_cards, deck,
                   current_equity, river_equity, outs_cards>>

NextOuts ==
    \/ OutsParse
    \/ \E x \in Tallies(sims) : OutsBaseline(x[1], x[2])
    \/ \E tally \in [VariedRivers \cap (1..Len(deck)) ->
                       RiverTallies(RiverSims(sims), opponent_hands # <<>>)] :
          OutsScan(tally)
    \/ OutsReturn

SpecOuts == InitOuts /\ [][NextOuts]_vars

-----------------------------------------------------------------------------
(* Specification SpecDeal: the hands of one trial of a simulation of        *)
(* calculate_outs.  Every trial of _simulate_equity starts from a copy of  *)
(* the same deck and every trial of _simulate_equity_with_river from a     *)
(* fresh deck, so the trials of a simulation all start in the same state.  *)

\* the player counted among the opponents
NumOpponentsAndPlayer(ohs) == Len(ohs) + 1

\* num_opponents = len(opponent_hands) if opponent_hands else 1
NumOpponents(ohs) == IF ohs # <<>> THEN Len(ohs) ELSE 1

dealIdle == <<evalVars, callVars, err, player_hands, results, trial, best_scores,
              winners, output, eq_wins, eq_ties, player_hand_str, opponent_hands_str,
              player_hand, opponent_hands, board_cards, deck, current_equity,
              river_equity, outs_cards, outs_details, report>>

InitDeal == InitOuts

\* _simulate_equity, lines 303-308: a trial of the baseline simulation
\* (range(sims)) up to the loop that deals the unknown hands
EquityTrial ==
    /\ pc = "baseline"
    /\ sims >= 1
    /\ temp_deck' = deck
    /\ all_hands' = <<player_hand>> \o opponent_hands
    /\ final_board' = board_cards
    /\ pc' = "deal_loop"
    /\ UNCHANGED dealIdle

\* _simulate_equity_with_river, lines 355-370: a trial of the simulation of
\* river_card (range(sims // 10)) up to the loop that deals the unknown hands
RiverTrial(river_card) ==
    /\ pc = "baseline"
    /\ RiverSims(sims) >= 1
    /\ final_board' = Append(board_cards, river_card)
    /\ temp_deck' = RemoveKnown(CreateDeck,
                                player_hand \o Append(board_cards, river_card)
                                    \o Flatten(opponent_hands))
    /\ all_hands' = <<player_hand>> \o opponent_hands
    /\ pc' = "deal_loop"
    /\ UNCHANGED dealIdle

\* lines 310-315 and 373-378: one evaluation of the condition of
\* "while len(all_hands) <= num_opponents" and, where it holds, of the body;
\* with fewer than 2 cards in temp_deck the body changes nothing
DealLoop(r) ==
    /\ pc = "deal_loop"
    /\ IF Len(all_hands) <= NumOpponents(opponent_hands)
       THEN IF Len(temp_deck) >= 2
            THEN LET new_hand == Sample(temp_deck, 2, r)
                 IN  /\ all_hands' = Append(all_hands, new_hand)
                     /\ temp_deck' = RemoveDealt(temp_deck, new_hand)
                     /\ pc' = pc
            ELSE UNCHANGED <<all_hands, temp_deck, pc>>
       ELSE /\ pc' = "dealt"
            /\ UNCHANGED <<all_hands, temp_deck>>
    /\ UNCHANGED <<dealIdle, final_board>>

NextDeal ==
    \/ OutsParse
    \/ EquityTrial
    \/ \E k \in 1..Len(deck) : RiverTrial(deck[k])
    \/ \E r \in 0..(MaxRand - 1) : DealLoop(r)

\* the call runs on one thread: a step that can be taken is taken
SpecDeal == InitDeal /\ [][NextDeal]_vars /\ WF_vars(NextDeal)

-----------------------------------------------------------------------------
(* Specification SpecCalls: a call of calculate_odds or of calculate_outs *)

InitCalls == InitOdds \/ InitOuts

NextCalls == NextOdds \/ NextOuts

SpecCalls == InitCalls /\ [][NextCalls]_vars

-----------------------------------------------------------------------------
(* Properties of evaluate_hand, checked under SpecEval *)

RanksOf(cs) == {CardValue(cs[k]) : k \in 1..Len(cs)}

SuitsOf(cs) == {CardSuit(cs[k]) : k \in 1..Len(cs)}

\* C1: five cards with the ranks A 2 3 4 5, not all of one suit, evaluate to
\* the Straight category, tier 5, with the five (not the ace) as high card
C1_WheelIsStraight ==
    (/\ pc = "evaluated"
     /\ Len(cards) = 5
     /\ RanksOf(cards) = {ACE, TWO, THREE, FOUR, FIVE}
     /\ Cardinality(SuitsOf(cards)) > 1)
    => /\ ev.name = "Straight"
       /\ Len(ev.score) = 2
       /\ ev.score[1] = 5
       /\ ev.score[2] \in {FIVE, 5}

\* C2: five cards of one suit with the ranks T J Q K A evaluate to Royal Flush,
\* tier 10, high card ace; every other straight flush evaluates to tier 9
C2_RoyalFlushTier10 ==
    (/\ pc = "evaluated"
     /\ Len(cards) = 5
     /\ Cardinality(SuitsOf(cards)) = 1)
    => /\ RanksOf(cards) = {TEN, JACK, QUEEN, KING, ACE}
          => /\ ev.name = "Royal Flush"
             /\ ev.score[1] = 10
             /\ ev.score[2] \in {ACE, 14}
       /\ (\E lo \in TWO..(TEN - 1) : RanksOf(cards) = lo..(lo + 4))
          => ev.score[1] = 9

\* C13: evaluate_hand called with a number of cards other than 5 fails with
\* an InvalidHandSize error and returns no rank that compares with the score
\* of a real hand
C13_InvalidHandSizeFails ==
    (pc = "evaluated" /\ Len(cards) # 5)
    => /\ err.type = "InvalidHandSize"
       /\ ev = NoCall

-----------------------------------------------------------------------------
(* Properties of calculate_odds, checked under SpecOdds *)

NoRepeat(s) == \A j, k \in 1..Len(s) : j # k => s[j] # s[k]

\* the fixed cards of the call: known hole cards and known board cards
FixedCards == Flatten(player_hands) \o board_cards

Players == 0..(num_players - 1)

\* C3: the equity reported for every player is, before rounding, the player's
\* win percentage plus the player's tie percentage
C3_EquityIsWinPlusTie ==
    pc = "done" =>
        \A i \in Players :
            FracEq(OddsEquity(results[i], sims, winners),
                   FracAdd(WinPct(results[i], sims), TiePct(results[i], sims)))

\* the players no other player's best score of the trial just run beats
TopPlayers(scores) ==
    {i \in 0..(Len(scores) - 1) :
        \A j \in 0..(Len(scores) - 1) : ~ListGreater(scores[j + 1], scores[i + 1])}

\* C4: in every trial the winners are exactly the players whose best score is
\* the greatest of the trial; a single winner gets one win and nothing else
\* changes, otherwise exactly the tied players get one tie and no win changes
C4_WinnersAndTally ==
    [][trial' = trial + 1 =>
        LET top == TopPlayers(best_scores')
        IN  /\ SeqToSet(winners') = top
            /\ Len(winners') = Cardinality(top)
            /\ \A i \in Players :
                /\ results'[i].wins =
                     results[i].wins + (IF top = {i} THEN 1 ELSE 0)
                /\ results'[i].ties =
                     results[i].ties + (IF i \in top /\ top # {i} THEN 1 ELSE 0)]_vars

\* a call that has tallied a single winner in one trial and a tie in another
C4_Witness ==
    /\ pc = "done"
    /\ \E i \in Players : results[i].wins > 0
    /\ \E i \in Players : results[i].ties > 0

\* every card of the latest trial: the hands of the players, the final board,
\* and the known hands no player holds
TrialCards ==
    Flatten(all_hands) \o final_board
        \o Flatten(SubSeq(player_hands, num_players + 1, Len(player_hands)))

\* C5: with no repeated card among the fixed hands and board, a trial uses no
\* card twice, deals two cards to every player and ends with a board of 5 cards
C5_NoCardReused ==
    (/\ pc \in {"trials", "done"}
     /\ trial >= 1
     /\ NoRepeat(FixedCards))
    => /\ NoRepeat(TrialCards)
       /\ Len(all_hands) = num_players
       /\ \A k \in 1..Len(all_hands) : Len(all_hands[k]) = 2
       /\ Len(final_board) = 5

\* a finished call that dealt an unknown hand and completed the board
C5_Witness ==
    /\ pc = "done"
    /\ NoRepeat(FixedCards)
    /\ Len(board_cards) < 5
    /\ \E k \in 1..num_players : k > Len(player_hands) \/ player_hands[k] = <<>>

\* C6: a card given twice among the fixed hands and the board ends the call
\* with a DuplicateCardError and no trial is run
C6_DuplicateRejected ==
    (pc \in {"trials", "done"} /\ ~NoRepeat(FixedCards))
    => trial = 0 /\ pc # "done"

\* the first line of the trial loop of calculate_odds
TrialLoopLine == 139

\* C7: calculate_odds fails only before the first trial starts dealing
C7_FailsOnlyBeforeTrials ==
    pc = "raised" => err.line < TrialLoopLine /\ all_hands = <<>>

\* C10: on the same trial outcomes _simulate_equity returns the equity that
\* calculate_odds reports for player 0
C10_SameEquityAsOdds ==
    pc = "done" =>
        FracEq(SimulateEquityValue(eq_wins, eq_ties, sims),
               OddsEquity(results[0], sims, winners))

\* the five-card subsets of seven cards, each in the order of the seven
FiveOfSeven(cs) ==
    {[k \in 1..5 |-> cs[SetDesc(S)[6 - k]]] :
        S \in {T \in SUBSET (1..7) : Cardinality(T) = 5}}

\* the seven cards of every player of the latest trial
SevenCards == [k \in 1..Len(all_hands) |-> all_hands[k] \o final_board]

\* C11: for every player's 7 cards of a trial, the best score the simulator
\* selects is beaten by the score of none of the 21 five-card subsets and is
\* the score of at least one of them
C11_BestOfSeven ==
    (pc \in {"trials", "done"} /\ trial >= 1)
    => \A k \in 1..Len(all_hands) :
         Len(SevenCards[k]) = 7
         => /\ Cardinality(FiveOfSeven(SevenCards[k])) <= 21
            /\ \A five \in FiveOfSeven(SevenCards[k]) :
                 ~ListGreater(EvaluateHand(five).score, best_scores[k])
            /\ \E five \in FiveOfSeven(SevenCards[k]) :
                 EvaluateHand(five).score = best_scores[k]

\* a trial in which the first five of a player's seven cards score less than
\* the player's best score, and so do the last five
C11_Witness ==
    /\ pc \in {"trials", "done"}
    /\ trial >= 1
    /\ \E k \in 1..Len(all_hands) :
        /\ Len(SevenCards[k]) = 7
        /\ ListGreater(best_scores[k], EvaluateHand(SubSeq(SevenCards[k], 1, 5)).score)
        /\ ListGreater(best_scores[k], EvaluateHand(SubSeq(SevenCards[k], 3, 7)).score)

\* C14: the equity reported depends on the final win and tie counters alone.
\* The last two trials run in the other order leave the same counters, and the
\* winners of the last trial are then those of the trial before it: the
\* equity of every player computed on line 200 is the same for both orders.
C14_EquityFromCountersAlone ==
    [][(trial >= 1 /\ trial' = trial + 1 /\ trial' = sims)
        => \A i \in Players :
             Round2(OddsEquity(results'[i], sims, winners'))
                = Round2(OddsEquity(results'[i], sims, winners))]_vars

\* the sum of the win counters, and of the tie counters, of all players
SumWins(res) ==
    LET n == Cardinality(DOMAIN res)
        sum[k \in 0..n] == IF k = 0 THEN 0 ELSE sum[k - 1] + res[k - 1].wins
    IN  sum[n]

SumTies(res) ==
    LET n == Cardinality(DOMAIN res)
        sum[k \in 0..n] == IF k = 0 THEN 0 ELSE sum[k - 1] + res[k - 1].ties
    IN  sum[n]

\* the players whose tie counter a step increments by one
TieIncremented == {i \in Players : results'[i].ties = results[i].ties + 1}

\* the counters after k completed trials, the trials that ended in a tie
\* being the k - (sum of the win counters) trials no player won
CountersAfterTrials ==
    (pc \in {"trials", "done"})
    => /\ SumWins(results) <= trial
       /\ \A i \in Players :
            /\ results[i].wins + results[i].ties <= trial
            /\ results[i].ties <= trial - SumWins(results)
       /\ SumTies(results) >= 2 * (trial - SumWins(results))

\* a trial is won, one win counter going up by one and no tie counter
\* changing, or tied, at least two tie counters going up by one and no win
\* counter changing
CountersInTrial ==
    trial' = trial + 1
    => \/ /\ SumWins(results') = SumWins(results) + 1
          /\ \A i \in Players : /\ results'[i].ties = results[i].ties
                                /\ results'[i].wins >= results[i].wins
       \/ /\ \A i \in Players : /\ results'[i].wins = results[i].wins
                                /\ results'[i].ties \in {results[i].ties,
                                                         results[i].ties + 1}
          /\ Cardinality(TieIncremented) >= 2

\* C15: after every completed trial k the sum of the win counters plus the
\* number of tied trials is k, every player's wins + ties is at most k, and a
\* tied trial increments at least two tie counters
C15_CountersAddUp == []CountersAfterTrials /\ [][CountersInTrial]_vars

\* two trials completed, one won and one tied
C15_Witness ==
    /\ pc = "trials"
    /\ trial = 2
    /\ SumWins(results) = 1
    /\ SumTies(results) >= 2

-----------------------------------------------------------------------------
(* Properties of calculate_outs, checked under SpecOuts *)

\* C8: for every positive sims the simulation of every river card runs at
\* least one trial, every river card gets an equity and the call returns
C8_EveryRiverSimulated ==
    (current_equity # <<>> /\ pc \in {"raised", "return", "done"} /\ sims >= 1)
    => /\ pc # "raised"
       /\ RiverSims(sims) >= 1
       /\ Len(river_equity) = Len(deck)

\* the river cards of the deck the report lists as outs, by position in the deck
ListedRivers ==
    {k \in 1..Len(deck) :
        \E j \in 1..Len(report.outs_cards) : report.outs_cards[j] = ToCode(deck[k])}

\* the river cards whose equity is greater than the baseline equity plus 20
GainingRivers ==
    {k \in 1..Len(deck) :
        FracGreater(river_equity[k], FracAdd(current_equity, Frac(20, 1)))}

\* C9 as claimed: a river card is listed as an out if and only if its equity
\* is greater than the baseline equity plus 20; every entry of outs_details
\* reports an equity_gain greater than 20 (2000 hundredths); outs_count is at
\* most deck_remaining
C9_OutsAboveThreshold ==
    (pc = "done" /\ "error" \notin DOMAIN report)
    => /\ ListedRivers = GainingRivers
       /\ \A j \in 1..Len(report.outs_details) :
            report.outs_details[j].equity_gain > 2000
       /\ report.outs_count <= report.deck_remaining

\* C9 as amended: a river card is listed as an out if and only if its equity
\* is greater than the baseline equity plus 20; every entry of outs_details is
\* the entry of a listed card and reports that card's gain rounded to two
\* decimals, which is at least 20; outs_count is at most deck_remaining
C9_OutsAtLeastThreshold ==
    (pc = "done" /\ "error" \notin DOMAIN report)
    => /\ ListedRivers = GainingRivers
       /\ report.outs_count = Cardinality(GainingRivers)
       /\ Len(report.outs_details) = report.outs_count
       /\ \A j \in 1..Len(report.outs_details) :
            /\ report.outs_details[j].equity_gain >= 2000
            /\ \E k \in GainingRivers :
                /\ report.outs_details[j].card = ToCode(deck[k])
                /\ report.outs_details[j].equity_gain =
                     Round2(FracSub(river_equity[k], current_equity))
       /\ report.outs_count <= report.deck_remaining

\* a report that lists an out and leaves other river cards out
C9_Witness ==
    /\ pc = "done"
    /\ "error" \notin DOMAIN report
    /\ report.outs_count >= 1
    /\ report.outs_count < report.deck_remaining
    /\ report.outs_details[1].equity_gain > 2000

-----------------------------------------------------------------------------
(* Properties of both calls, checked under SpecCalls *)

\* a call of calculate_odds past its parsing
InOdds == pc = "trials" \/ (pc = "done" /\ output # <<>>)

\* a call of calculate_outs past its parsing
InOuts == pc \in {"baseline", "scan", "return"}
              \/ (pc = "done" /\ "deck_remaining" \in DOMAIN report)

\* the fully known hands of a call of calculate_odds, by position
KnownHands == {k \in 1..Len(player_hands) : player_hands[k] # <<>>}

\* the players of a trial whose hand was drawn
DrawnHands == {k \in 1..num_players : k \notin KnownHands}

\* the cards given to a call of calculate_outs
OutsFixedCards == player_hand \o board_cards \o Flatten(opponent_hands)

\* C12: with no repeated card among the fixed hands and the board, the deck
\* built at the start of a trial of calculate_odds, and the deck (and
\* deck_remaining) of calculate_outs, has 52 - 2 * (fully known hands) - (board
\* cards) cards, which is not negative
C12_DeckSize ==
    /\ (InOdds /\ NoRepeat(FixedCards))
       => LET size == 52 - 2 * Cardinality(KnownHands) - Len(board_cards)
          IN  /\ size >= 0
              /\ Len(RemoveKnown(CreateDeck, FixedCards)) = size
              /\ NoRepeat(RemoveKnown(CreateDeck, FixedCards))
              /\ SeqToSet(RemoveKnown(CreateDeck, FixedCards))
                   = SeqToSet(CreateDeck) \ SeqToSet(FixedCards)
              /\ trial >= 1 => Len(deck) = size - 2 * Cardinality(DrawnHands)
    /\ (InOuts /\ NoRepeat(OutsFixedCards))
       => LET size == 52 - 2 * (1 + Len(opponent_hands)) - Len(board_cards)
          IN  /\ size >= 0
              /\ Len(deck) = size
              /\ SeqToSet(deck) = SeqToSet(CreateDeck) \ SeqToSet(OutsFixedCards)
              /\ pc = "done" => report.deck_remaining = size

\* a trial of calculate_odds with a known hand, an unknown hand and a known
\* flop, no card repeated
C12_Witness ==
    /\ pc = "trials"
    /\ trial >= 1
    /\ NoRepeat(FixedCards)
    /\ KnownHands # {}
    /\ DrawnHands # {}
    /\ Len(board_cards) = 3

-----------------------------------------------------------------------------
(* Properties of the dealing loop, checked under SpecDeal *)

\* the body of the loop is entered with no opponent hand known, the player's
\* hand alone in all_hands and at least 2 cards in temp_deck
DealEntered ==
    (pc = "deal_loop" /\ Len(all_hands) <= NumOpponents(opponent_hands))
    => /\ opponent_hands = <<>>
       /\ all_hands = <<player_hand>>
       /\ Len(temp_deck) >= 2

\* after the loop: the known opponent hands, or else one hand of two cards
\* taken from temp_deck
DealtOne ==
    pc = "dealt"
    => /\ all_hands[1] = player_hand
       /\ IF opponent_hands # <<>>
          THEN all_hands = <<player_hand>> \o opponent_hands
          ELSE /\ Len(all_hands) = 2
               /\ Len(all_hands[2]) = 2
               /\ SeqToSet(all_hands[2]) \cap SeqToSet(temp_deck) = {}

\* C16: for every input that passes the length validation of calculate_outs
\* the loop that deals to the unknown opponents ends in every trial; its body
\* is entered only with no opponent hand known and at least 2 cards in the
\* temporary deck, and it then deals exactly one opponent hand
C16_DealLoopTerminates ==
    /\ []DealEntered
    /\ []DealtOne
    /\ (pc = "deal_loop") ~> (pc = "dealt")

\* a trial with the river card fixed that has dealt the hand of the one
\* unknown opponent
C16_Witness ==
    /\ pc = "dealt"
    /\ opponent_hands = <<>>
    /\ Len(final_board) = 5
    /\ Len(all_hands) = 2
    /\ Len(temp_deck) = 43

====
